---- MODULE Spec2Model ----
(***************************************************************************)
(* Model of qsi: the entity/component store (src/src/ecs/mod.rs), the      *)
(* application driver around it (src/src/lib.rs with the input, time,     *)
(* camera and graphics calls it makes) and the physics system of the      *)
(* example (src/examples/basic_grid.rs).                                   *)
(*                                                                         *)
(* World { next_entity_id, entities, components } is the state of the      *)
(* store.  Each public method of World and of EntityBuilder is one action. *)
(* A component table (HashMap<EntityId, T>) is kept as a set of            *)
(* <<entity, value>> entries, so that "one value per key" is a property of *)
(* the operations and not of the representation.  Option<T> is <<>>        *)
(* (None) or <<v>> (Some(v)).                                              *)
(*                                                                         *)
(* Specifications:                                                         *)
(*   Spec          the operations of the World, in any order               *)
(*   SpecOverflow  create_entity on the id counter at its width            *)
(*   SpecApp       App::run: registration, resumed, window events, frames  *)
(*   SpecRender    one render pass over any World                          *)
(*   SpecPhysics   physics_system over any World                           *)
(*   SpecTimer     ticks of any Timer of the time module                   *)
(*   SpecInput     the calls on an InputState, in any order                *)
(*   SpecCamera    the mouse and zoom calls on a CameraController          *)
(*   SpecCameraTransform  update_camera_transform over any World           *)
(*   SpecTime      the updates of a TimeState                              *)
(***************************************************************************)
EXTENDS Integers, Sequences, FiniteSets, TLC

\* ------------------------------------------------------------------ bounds

\* Number of entity ids the model allocates and passes as arguments.
MaxEntities == 2

\* EntityId arguments: every id the model can allocate.  An id is "never
\* allocated" in the states where next_entity_id has not reached it yet.
EntityIds == 0 .. (MaxEntities - 1)

\* The component kinds (TypeId keys) the model instantiates the generic
\* methods with.
Kinds == {"Transform", "Velocity"}

\* Component payloads of a kind.  The store never inspects a value (T is
\* a type parameter everywhere), so two distinguishable payloads are
\* enough to tell an overwrite from a kept value; the second kind is
\* there to have a second table and has one payload.
ValuesOf(k) == IF k = "Transform" THEN {"a", "b"} ELSE {"c"}

\* ------------------------------------------------------------------ Option

None == << >>

Some(v) == << v >>

IsSome(o) == o # None

\* ------------------------------------------------------------------ state

VARIABLES
    next_entity_id,   \* World.next_entity_id
    entities,         \* World.entities : Vec<EntityId>
    components,       \* World.components : kind -> table, only created kinds
    builder,          \* the live EntityBuilder (Some(entity)) or None
    last,             \* history: the last operation, its arguments and result
    issued,           \* history: ids returned by create_entity / spawn, in order
    alive,            \* history: ids allocated and not since despawned
    overflow_checks,  \* the build checks integer overflow (dev profile)
    panicked,         \* a call has panicked and unwound
    app,              \* App and AppHandler: systems, systems_executed, state
    input_state,      \* AppState.input_state : InputState
    time,             \* AppState.time : TimeState
    renderer,         \* AppState.renderer : Renderer
    trace,            \* history: the calls of the last event handler, in order
    hist,             \* history: what the handlers have run since App::run
    timer,            \* a Timer of the time module
    camera_controller \* a CameraController of the camera module

\* The variables of the application driver (src/src/lib.rs), which the
\* operations of the World alone leave as they are.
driver == << app, input_state, time, renderer, trace, hist >>

\* The objects that neither the World nor the driver reaches.
apart == << timer, camera_controller >>

beyond == << overflow_checks, panicked, driver, apart >>

vars == << next_entity_id, entities, components, builder, last, issued, alive,
           overflow_checks, panicked, app, input_state, time, renderer,
           trace, hist, timer, camera_controller >>

world == << next_entity_id, entities, components >>

\* ------------------------------------------------------------------ HashMap

\* Keys of a table.
Keys(t) == { p[1] : p \in t }

\* HashMap::get
HashMapGet(t, e) ==
    IF \E p \in t : p[1] = e
    THEN Some((CHOOSE p \in t : p[1] = e)[2])
    ELSE None

\* A HashMap::insert that keeps the old entry beside the new one.
HashMapInsertDup(t, e, v) == t \cup { << e, v >> }

\* HashMap::insert: the entry of key e is replaced.
HashMapInsert(t, e, v) == { p \in t : p[1] # e } \cup { << e, v >> }

\* HashMap::remove: the table without key e (the removed value is
\* HashMapGet(t, e)).
HashMapRemove(t, e) == { p \in t : p[1] # e }

\* All sequences that list every member of S exactly once: the orders in
\* which HashMap::iter may visit a table.
RECURSIVE Enumerations(_)
Enumerations(S) ==
    IF S = {} THEN { << >> }
    ELSE UNION { { << x >> \o s : s \in Enumerations(S \ {x}) } : x \in S }

\* ------------------------------------------------------------------ Vec

\* A retain that drops everything up to and including the match.
RECURSIVE RetainTail(_, _)
RetainTail(s, e) ==
    IF s = << >> THEN << >>
    ELSE IF Head(s) = e THEN Tail(s)
    ELSE IF \E i \in 1 .. Len(s) : s[i] = e THEN RetainTail(Tail(s), e)
    ELSE s

\* Vec::retain(|&x| x != e)
RECURSIVE Retain(_, _)
Retain(s, e) ==
    IF s = << >> THEN << >>
    ELSE IF Head(s) = e THEN Retain(Tail(s), e)
    ELSE << Head(s) >> \o Retain(Tail(s), e)

\* ------------------------------------------------------------------ World reads

\* A get_component that falls back to the entity's entry in a table of
\* another kind.
get_component_anykind(e, k) ==
    IF k \in DOMAIN components /\ e \in Keys(components[k])
    THEN HashMapGet(components[k], e)
    ELSE IF \E j \in DOMAIN components : e \in Keys(components[j])
    THEN HashMapGet(components[CHOOSE j \in DOMAIN components :
                                 e \in Keys(components[j])], e)
    ELSE None

\* World::get_component: None when the kind has no table or the table has
\* no entry for the entity.
get_component(e, k) ==
    IF k \notin DOMAIN components THEN None
    ELSE HashMapGet(components[k], e)

\* A get_component_mut that hands out slots of live entities only.
get_component_mut_live(e, k) ==
    IF k \notin DOMAIN components THEN None
    ELSE IF \E i \in 1 .. Len(entities) : entities[i] = e
    THEN HashMapGet(components[k], e)
    ELSE None

\* World::get_component_mut: the same lookup, handing out the slot.
get_component_mut(e, k) ==
    IF k \notin DOMAIN components THEN None
    ELSE HashMapGet(components[k], e)

\* A has_component that also wants the entity in the live list.
has_component_live(e, k) ==
    /\ \E i \in 1 .. Len(entities) : entities[i] = e
    /\ IsSome(get_component(e, k))

\* World::has_component
has_component(e, k) == IsSome(get_component(e, k))

\* A query that skips the entries of entities missing from the live list.
query_live(k) ==
    IF k \notin DOMAIN components THEN { << >> }
    ELSE Enumerations({ p \in components[k] :
                          \E i \in 1 .. Len(entities) : entities[i] = p[1] })

\* World::query: the possible iteration results.
query(k) ==
    IF k \notin DOMAIN components THEN { << >> }
    ELSE Enumerations(components[k])

\* World::query_mut visits the same slots.
query_mut(k) ==
    IF k \notin DOMAIN components THEN { << >> }
    ELSE Enumerations(components[k])

\* ------------------------------------------------------------------ driver state

\* App::new() and the AppHandler that run() wraps around it.  at is the
\* position of the program: "building" while the builder methods of App
\* are called, "running" inside run_app, "exited" after event_loop.exit().
\* state is whether App.state is Some.  pc is the position inside the
\* event handler that is running, with the event it was called with.
AppNew ==
    [ at               |-> "building",
      state            |-> FALSE,
      startup_systems  |-> << >>,
      update_systems   |-> << >>,
      systems_executed |-> FALSE,
      pc               |-> [ step |-> "idle" ] ]

\* InputState::new().  Coordinates and deltas are whole numbers.
InputStateNew ==
    [ pressed_keys          |-> {},
      just_pressed_keys     |-> {},
      just_released_keys    |-> {},
      modifiers             |-> "empty",
      pressed_buttons       |-> {},
      just_pressed_buttons  |-> {},
      just_released_buttons |-> {},
      cursor_position       |-> << 0, 0 >>,
      cursor_delta          |-> << 0, 0 >>,
      scroll_delta          |-> 0,
      needs_redraw          |-> FALSE ]

\* TimeState.max_history, which new() sets to 60, at a reduced size.
MaxHistory == 3

\* TimeState::new().  Durations are whole numbers of a unit; the two
\* instants are kept as the durations they are read for.
TimeStateNew ==
    [ delta_time         |-> 0,
      elapsed_time       |-> 0,
      frame_count        |-> 0,
      frame_time_history |-> << >>,
      max_history        |-> MaxHistory ]

\* Renderer::new(): the surface is not configured before the first
\* resize; view is the view matrix of the uniforms.
RendererNew == [ is_surface_configured |-> FALSE, view |-> "look_at_initial" ]

\* Nothing has run.
HistNew ==
    [ registered |-> << >>,
      startup    |-> << >>,
      updated    |-> FALSE,
      fresh      |-> {},
      resumed    |-> 0 ]

\* Timer::new
Timer_new(duration, repeating) ==
    [ duration |-> duration, elapsed |-> 0,
      repeating |-> repeating, finished |-> FALSE ]

\* Timer::once
Timer_once(duration) == Timer_new(duration, FALSE)

\* Timer::repeating
Timer_repeating(duration) == Timer_new(duration, TRUE)

\* An f32: a number of the unit its field is kept in, or NaN.
F(n) == [ nan |-> FALSE, val |-> n ]

NaN == [ nan |-> TRUE, val |-> 0 ]

\* f32 addition and subtraction: NaN if an operand is NaN.
FAdd(a, b) == IF a.nan \/ b.nan THEN NaN ELSE F(a.val + b.val)

FSub(a, b) == IF a.nan \/ b.nan THEN NaN ELSE F(a.val - b.val)

\* f32::clamp: NaN stays NaN.
FClamp(a, min, max) ==
    IF a.nan THEN a
    ELSE IF a.val < min THEN F(min)
    ELSE IF a.val > max THEN F(max)
    ELSE a

\* The fields of CameraController::new().  radius is kept in tenths, so
\* that one scroll line (zoom_sensitivity 0.1) is one unit; theta and phi
\* are kept in hundredths of a radian, so that one pixel of cursor
\* movement (sensitivity 0.01) is one unit.
RadiusNew == 100

\* PI * 0.3, in hundredths.
PhiNew == 94

\* zoom_range (2.0, 50.0), in tenths.
ZoomRangeMin == 20

ZoomRangeMax == 500

\* The range phi is clamped to, 0.1 to PI - 0.1, in hundredths: the
\* upper end is the last hundredth below PI - 0.1.
PhiMin == 10

PhiMax == 304

\* CameraController::new(); center, sensitivity, zoom_sensitivity and
\* zoom_range keep the values new() gives them.
CameraController_new ==
    [ radius         |-> F(RadiusNew),
      theta          |-> F(0),
      phi            |-> F(PhiNew),
      is_dragging    |-> FALSE,
      last_mouse_pos |-> << F(0), F(0) >>,
      cursor_pos     |-> << F(0), F(0) >>,
      camera_entity  |-> None ]

\* The objects apart from the World and the driver, as constructed.
ApartInit ==
    /\ timer = Timer_once(0)
    /\ camera_controller = CameraController_new

DriverInit ==
    /\ app = AppNew
    /\ input_state = InputStateNew
    /\ time = TimeStateNew
    /\ renderer = RendererNew
    /\ trace = << >>
    /\ hist = HistNew

\* ------------------------------------------------------------------ Init

\* World::new(), no builder, nothing recorded.
WorldInit ==
    /\ next_entity_id = 0
    /\ entities = << >>
    /\ components = << >>
    /\ builder = None
    /\ last = [op |-> "new"]
    /\ issued = << >>
    /\ alive = {}

Init ==
    /\ WorldInit
    /\ overflow_checks = TRUE
    /\ panicked = FALSE
    /\ DriverInit
    /\ ApartInit

\* ------------------------------------------------------------------ World writes

\* A create_entity that takes the id from the length of the live list.
create_entity_reuse ==
    [ id       |-> Len(entities),
      next     |-> next_entity_id + 1,
      entities |-> Append(entities, Len(entities)) ]

\* A create_entity that puts the new id at the front of the live list.
create_entity_front ==
    [ id       |-> next_entity_id,
      next     |-> next_entity_id + 1,
      entities |-> << next_entity_id >> \o entities ]

\* World::create_entity: the id returned and the fields it assigns.
create_entity ==
    [ id       |-> next_entity_id,
      next     |-> next_entity_id + 1,
      entities |-> Append(entities, next_entity_id) ]

\* An add_component that also registers the entity in the live list.
add_component_register(e, k, v) ==
    LET storage == IF k \in DOMAIN components THEN components[k] ELSE {}
    IN  [ components |-> (k :> HashMapInsert(storage, e, v)) @@ components,
          entities   |-> IF \E i \in 1 .. Len(entities) : entities[i] = e
                         THEN entities ELSE Append(entities, e) ]

\* An add_component that keeps one slot per entity: it drops what the
\* entity holds under the other kinds.
add_component_one_slot(e, k, v) ==
    LET storage == IF k \in DOMAIN components THEN components[k] ELSE {}
    IN  [ components |-> (k :> HashMapInsert(storage, e, v))
                           @@ [ j \in DOMAIN components |->
                                  HashMapRemove(components[j], e) ],
          entities   |-> entities ]

\* World::add_component: entry(type_id).or_insert_with(new table), then
\* insert into it.  The downcast is to the type the table was created
\* with and succeeds.
add_component(e, k, v) ==
    LET storage == IF k \in DOMAIN components THEN components[k] ELSE {}
    IN  [ components |-> (k :> HashMapInsert(storage, e, v)) @@ components,
          entities   |-> entities ]

\* A remove_component that reads the value and leaves it in the table.
remove_component_keep(e, k) ==
    IF k \notin DOMAIN components
    THEN [ ret |-> None, components |-> components ]
    ELSE [ ret        |-> HashMapGet(components[k], e),
           components |-> components ]

\* A remove_component that reaches the table with entry().or_default(),
\* which creates it.
remove_component_entry(e, k) ==
    LET storage == IF k \in DOMAIN components THEN components[k] ELSE {}
    IN  [ ret        |-> HashMapGet(storage, e),
          components |-> (k :> HashMapRemove(storage, e)) @@ components ]

\* World::remove_component: the value returned and the tables afterwards.
\* No table is created when the kind has none.
remove_component(e, k) ==
    IF k \notin DOMAIN components
    THEN [ ret |-> None, components |-> components ]
    ELSE [ ret        |-> HashMapGet(components[k], e),
           components |-> [ components EXCEPT ![k] = HashMapRemove(@, e) ] ]

\* A despawn that also purges the entity from every table.
despawn_purge(e) ==
    [ entities   |-> Retain(entities, e),
      components |-> [ k \in DOMAIN components |->
                         HashMapRemove(components[k], e) ] ]

\* World::despawn: retain on the live list; the loop over the tables has
\* an empty body.
despawn(e) ==
    [ entities   |-> Retain(entities, e),
      components |-> components ]

\* ------------------------------------------------------------------ actions
\* Each action records itself in last: the operation, its arguments, what
\* it returned and, where a property compares the states around the call,
\* the World before the call (before) and what was read then (old, held).

\* The entities query_mut::<k>() hands a slot of.
SlotsOf(k) == IF k \in DOMAIN components THEN Keys(components[k]) ELSE {}

\* world.create_entity()
CreateEntity ==
    /\ builder = None
    /\ next_entity_id < MaxEntities
    /\ LET r == create_entity
       IN  /\ next_entity_id' = r.next
           /\ entities' = r.entities
           /\ issued' = Append(issued, r.id)
           /\ alive' = alive \cup { r.id }
           /\ last' = [ op |-> "create_entity", id |-> r.id ]
    /\ UNCHANGED << components, builder >>
    /\ UNCHANGED beyond

\* History of the live builder: the component its with calls stored last
\* for each kind (none right after spawn).
Staged == IF last.op = "with" THEN last.staged ELSE << >>

\* History of the live builder: what the World held under the builder's
\* id before spawn, kept while no with has been called.
Prior == IF last.op = "spawn" THEN Some(last.held) ELSE None

\* world.spawn(): create_entity, then a builder that borrows the World
\* for as long as it lives.
Spawn ==
    /\ builder = None
    /\ next_entity_id < MaxEntities
    /\ LET r == create_entity
       IN  /\ next_entity_id' = r.next
           /\ entities' = r.entities
           /\ issued' = Append(issued, r.id)
           /\ alive' = alive \cup { r.id }
           /\ builder' = Some(r.id)
           /\ last' = [ op |-> "spawn", id |-> r.id,
                        held |-> [ k \in Kinds |-> get_component(r.id, k) ] ]
    /\ UNCHANGED components
    /\ UNCHANGED beyond

\* EntityBuilder::id
EntityBuilder_id == builder[1]

\* A with that keeps the component in the builder until build().
WithDeferred(k, v) ==
    /\ builder # None
    /\ last' = [ op |-> "with", e |-> builder[1], k |-> k, v |-> v,
                 old |-> get_component(builder[1], k), before |-> world,
                 staged |-> (k :> v) @@ Staged ]
    /\ UNCHANGED << world, builder, issued, alive >>
    /\ UNCHANGED beyond

\* builder.with(component)
With(k, v) ==
    /\ builder # None
    /\ LET r == add_component(builder[1], k, v)
       IN  /\ components' = r.components
           /\ entities' = r.entities
    /\ last' = [ op |-> "with", e |-> builder[1], k |-> k, v |-> v,
                 old |-> get_component(builder[1], k), before |-> world,
                 staged |-> (k :> v) @@ Staged ]
    /\ UNCHANGED << next_entity_id, builder, issued, alive >>
    /\ UNCHANGED beyond

\* A build that gives the entity a default Transform when it has none.
BuildDefault ==
    /\ builder # None
    /\ builder' = None
    /\ components' =
          IF IsSome(get_component(builder[1], "Transform"))
          THEN components
          ELSE add_component(builder[1], "Transform", "a").components
    /\ last' = [ op |-> "build", id |-> builder[1], before |-> world,
                 staged |-> Staged, prior |-> Prior ]
    /\ UNCHANGED << next_entity_id, entities, issued, alive >>
    /\ UNCHANGED beyond

\* builder.build(): consumes the builder, returns its entity.
Build ==
    /\ builder # None
    /\ builder' = None
    /\ last' = [ op |-> "build", id |-> EntityBuilder_id, before |-> world,
                 staged |-> Staged, prior |-> Prior ]
    /\ UNCHANGED << world, issued, alive >>
    /\ UNCHANGED beyond

\* The builder goes out of scope without build(): Drop does nothing.
DropBuilder ==
    /\ builder # None
    /\ builder' = None
    /\ last' = [ op |-> "drop", id |-> builder[1], before |-> world,
                 staged |-> Staged, prior |-> Prior ]
    /\ UNCHANGED << world, issued, alive >>
    /\ UNCHANGED beyond

\* world.add_component::<k>(e, v)
AddComponent(e, k, v) ==
    /\ builder = None
    /\ LET r == add_component(e, k, v)
       IN  /\ components' = r.components
           /\ entities' = r.entities
    /\ last' = [ op |-> "add_component", e |-> e, k |-> k, v |-> v,
                 old |-> get_component(e, k), before |-> world ]
    /\ UNCHANGED << next_entity_id, builder, issued, alive >>
    /\ UNCHANGED beyond

\* world.get_component_mut::<k>(e), and a write of w through the
\* reference when one is returned.
GetComponentMut(e, k, w) ==
    /\ builder = None
    /\ LET slot == get_component_mut(e, k)
       IN  /\ components' =
                 IF IsSome(slot)
                 THEN [ components EXCEPT
                          ![k] = { IF p[1] = e THEN << e, w >> ELSE p : p \in @ } ]
                 ELSE components
           /\ last' = [ op |-> "get_component_mut", e |-> e, k |-> k,
                        ret |-> slot,
                        wrote |-> IF IsSome(slot) THEN Some(w) ELSE None,
                        keys |-> [ j \in Kinds |-> SlotsOf(j) ],
                        tables |-> DOMAIN components,
                        others |-> [ j \in DOMAIN components \ { k } |->
                                       components[j] ],
                        live |-> entities,
                        counter |-> next_entity_id ]
    /\ UNCHANGED << next_entity_id, entities, builder, issued, alive >>
    /\ UNCHANGED beyond

\* world.remove_component::<k>(e)
RemoveComponent(e, k) ==
    /\ builder = None
    /\ LET r == remove_component(e, k)
       IN  /\ components' = r.components
           /\ last' = [ op |-> "remove_component", e |-> e, k |-> k,
                        ret |-> r.ret,
                        old |-> get_component(e, k), before |-> world ]
    /\ UNCHANGED << next_entity_id, entities, builder, issued, alive >>
    /\ UNCHANGED beyond

\* A query_mut that looks the table up with entry().or_default(), which
\* creates it.
QueryMutEntry(k, f) ==
    /\ builder = None
    /\ components' =
          IF k \in DOMAIN components
          THEN [ components EXCEPT ![k] = { << p[1], f[p[1]] >> : p \in @ } ]
          ELSE (k :> {}) @@ components
    /\ last' = [ op |-> "query_mut", k |-> k, f |-> f,
                 keys |-> [ j \in Kinds |-> SlotsOf(j) ],
                 tables |-> DOMAIN components,
                 others |-> [ j \in DOMAIN components \ { k } |->
                                components[j] ],
                 live |-> entities,
                 counter |-> next_entity_id,
                 missing |-> IF k \in DOMAIN components THEN None
                             ELSE Some([ ret    |-> query_mut(k),
                                         before |-> world ]) ]
    /\ UNCHANGED << next_entity_id, entities, builder, issued, alive >>
    /\ UNCHANGED beyond

\* world.query_mut::<k>() run to the end, the caller storing f[e] into
\* the slot of each entity e it is handed.  When the kind has no table,
\* last.missing keeps the sequence yielded and the World of the call.
QueryMut(k, f) ==
    /\ builder = None
    /\ components' =
          IF k \in DOMAIN components
          THEN [ components EXCEPT ![k] = { << p[1], f[p[1]] >> : p \in @ } ]
          ELSE components
    /\ last' = [ op |-> "query_mut", k |-> k, f |-> f,
                 keys |-> [ j \in Kinds |-> SlotsOf(j) ],
                 tables |-> DOMAIN components,
                 others |-> [ j \in DOMAIN components \ { k } |->
                                components[j] ],
                 live |-> entities,
                 counter |-> next_entity_id,
                 missing |-> IF k \in DOMAIN components THEN None
                             ELSE Some([ ret    |-> query_mut(k),
                                         before |-> world ]) ]
    /\ UNCHANGED << next_entity_id, entities, builder, issued, alive >>
    /\ UNCHANGED beyond

\* world.despawn(e)
Despawn(e) ==
    /\ builder = None
    /\ LET r == despawn(e)
       IN  /\ entities' = r.entities
           /\ components' = r.components
    /\ alive' = alive \ { e }
    /\ last' = [ op |-> "despawn", e |-> e,
                 held |-> [ k \in Kinds |-> get_component(e, k) ],
                 before |-> world ]
    /\ UNCHANGED << next_entity_id, builder, issued >>
    /\ UNCHANGED beyond

Next ==
    \/ CreateEntity
    \/ Spawn
    \/ \E k \in Kinds : \E v \in ValuesOf(k) : With(k, v)
    \/ Build
    \/ DropBuilder
    \/ \E e \in EntityIds, k \in Kinds : \E v \in ValuesOf(k) :
          AddComponent(e, k, v)
    \/ \E e \in EntityIds, k \in Kinds : \E w \in ValuesOf(k) :
          GetComponentMut(e, k, w)
    \/ \E e \in EntityIds, k \in Kinds : RemoveComponent(e, k)
    \/ \E k \in Kinds : \E f \in [SlotsOf(k) -> ValuesOf(k)] : QueryMut(k, f)
    \/ \E e \in EntityIds : Despawn(e)

Spec == Init /\ [][Next]_vars

\* ------------------------------------------------------------------ the id counter at its width
\* EntityId is u32 and create_entity increments it with +=.  The model
\* keeps the counter in IdBits bits, so that the last id is reached after
\* IdModulus - 1 allocations.

IdBits == 2

IdModulus == 2 ^ IdBits

WideIds == 0 .. (IdModulus - 1)

\* Allocations explored: enough to pass the last id of the counter and
\* allocate once more.
MaxAllocations == IdModulus + 1

\* World::create_entity on the fixed-width counter.  Where the increment
\* overflows, a build with overflow checks panics at the += (nothing is
\* pushed, nothing is returned), and a build without them wraps to 0.
create_entity_at_width(checks) ==
    IF next_entity_id + 1 >= IdModulus /\ checks
    THEN [ panics   |-> TRUE,
           id       |-> None,
           next     |-> next_entity_id,
           entities |-> entities ]
    ELSE [ panics   |-> FALSE,
           id       |-> Some(next_entity_id),
           next     |-> (next_entity_id + 1) % IdModulus,
           entities |-> Append(entities, next_entity_id) ]

\* world.create_entity() in either build.
CreateEntityAtWidth ==
    /\ builder = None
    /\ Len(issued) < MaxAllocations
    /\ LET r == create_entity_at_width(overflow_checks)
       IN  /\ next_entity_id' = r.next
           /\ entities' = r.entities
           /\ panicked' = r.panics
           /\ issued' = IF r.panics THEN issued ELSE Append(issued, r.id[1])
           /\ alive' = IF r.panics THEN alive ELSE alive \cup { r.id[1] }
           /\ last' = [ op |-> "create_entity", ret |-> r.id,
                        counter |-> next_entity_id ]
    /\ UNCHANGED << components, builder, overflow_checks, driver, apart >>

\* The build profile is fixed before the program starts.
InitOverflow ==
    /\ WorldInit
    /\ overflow_checks \in BOOLEAN
    /\ panicked = FALSE
    /\ DriverInit
    /\ ApartInit

\* Nothing runs after the panic.
NextOverflow ==
    \/ ~ panicked /\ CreateEntityAtWidth
    \/ ~ panicked /\ \E e \in WideIds : Despawn(e)

SpecOverflow == InitOverflow /\ [][NextOverflow]_vars

\* ------------------------------------------------------------------ application driver: data
\* src/src/lib.rs, with the parts of input, camera and graphics that the
\* event handlers call.

\* Systems registered per list by the add_* methods.
MaxSystems == 2

\* Frames explored per AppState.
MaxFrames == 2

\* The callbacks the model registers.  Each is one call on the World:
\* "marker" adds a Velocity to the camera entity, "remover" removes it.
SystemKinds == {"marker", "remover"}

KeyCodes == {"KeyA", "Escape"}

ElementStates == {"Pressed", "Released"}

\* The window events the model delivers.  positive is whether both
\* dimensions of the new size are above zero.
WindowEvents ==
    { [ type |-> "RedrawRequested" ], [ type |-> "CloseRequested" ] }
    \cup { [ type |-> "Resized", positive |-> b ] : b \in BOOLEAN }
    \cup { [ type |-> "KeyboardInput", code |-> c, state |-> st ] :
             c \in KeyCodes, st \in ElementStates }

\* Results of surface.get_current_texture().
SurfaceResults == {"Ok", "Lost", "OutOfMemory", "Timeout"}

\* The entity AppState::new creates first.
CameraEntity == 0

\* Transform::default()
TransformDefault ==
    [ position |-> << 0, 0, 0 >>,
      rotation |-> << 0, 0, 0 >>,
      scale    |-> << 1, 1, 1 >> ]

\* Camera::default(), never inspected by the driver.
CameraDefault == "camera"

\* CameraController::set_camera_entity
set_camera_entity(c, entity) == [ c EXCEPT !.camera_entity = Some(entity) ]

\* CameraController::position(), for a controller without NaN: the point
\* at radius, theta and phi around the center, kept in these spherical
\* coordinates, from which the code computes x, y and z.
position(c) == << c.radius.val, c.theta.val, c.phi.val >>

\* The controller AppState::new sets up.  No event of the model moves
\* it.
CameraControllerApp == set_camera_entity(CameraController_new, CameraEntity)

CameraPosition == position(CameraControllerApp)

\* An update that also forgets which keys and buttons are held.
InputState_update_held(s) ==
    [ s EXCEPT !.pressed_keys = {},
               !.just_pressed_keys = {},
               !.just_released_keys = {},
               !.pressed_buttons = {},
               !.just_pressed_buttons = {},
               !.just_released_buttons = {},
               !.cursor_delta = << 0, 0 >>,
               !.scroll_delta = 0,
               !.needs_redraw = FALSE ]

\* InputState::update
InputState_update(s) ==
    [ s EXCEPT !.just_pressed_keys = {},
               !.just_released_keys = {},
               !.just_pressed_buttons = {},
               !.just_released_buttons = {},
               !.cursor_delta = << 0, 0 >>,
               !.scroll_delta = 0,
               !.needs_redraw = FALSE ]

\* InputState::key_input
key_input(s, key_code, state) ==
    IF state = "Pressed"
    THEN [ s EXCEPT !.just_pressed_keys =
                        IF key_code \in s.pressed_keys
                        THEN @ ELSE @ \cup { key_code },
                    !.pressed_keys = @ \cup { key_code },
                    !.needs_redraw = TRUE ]
    ELSE [ s EXCEPT !.pressed_keys = @ \ { key_code },
                    !.just_released_keys = @ \cup { key_code },
                    !.needs_redraw = TRUE ]

\* InputState::key_pressed
key_pressed(s, key_code) == key_code \in s.pressed_keys

\* InputState::set_modifiers
set_modifiers(s, modifiers) == [ s EXCEPT !.modifiers = modifiers ]

\* InputState::mouse_button
mouse_button(s, button, state) ==
    IF state = "Pressed"
    THEN [ s EXCEPT !.just_pressed_buttons =
                        IF button \in s.pressed_buttons
                        THEN @ ELSE @ \cup { button },
                    !.pressed_buttons = @ \cup { button },
                    !.needs_redraw = TRUE ]
    ELSE [ s EXCEPT !.pressed_buttons = @ \ { button },
                    !.just_released_buttons = @ \cup { button },
                    !.needs_redraw = TRUE ]

\* InputState::mouse_button_pressed
mouse_button_pressed(s, button) == button \in s.pressed_buttons

\* InputState::set_cursor_position
set_cursor_position(s, x, y) ==
    [ s EXCEPT !.cursor_position = << x, y >>,
               !.cursor_delta = << x - s.cursor_position[1],
                                   y - s.cursor_position[2] >> ]

\* InputState::set_scroll_delta
set_scroll_delta(s, delta) ==
    [ s EXCEPT !.scroll_delta = delta, !.needs_redraw = TRUE ]

\* InputState::request_redraw
request_redraw(s) == [ s EXCEPT !.needs_redraw = TRUE ]

\* InputState::key_just_pressed
key_just_pressed(s, key_code) == key_code \in s.just_pressed_keys

\* An update that drops the newest entry of a full history.
TimeState_update_pop(t, delta) ==
    LET pushed == Append(t.frame_time_history, delta)
    IN  [ t EXCEPT !.delta_time = delta,
                   !.elapsed_time = @ + delta,
                   !.frame_count = @ + 1,
                   !.frame_time_history =
                       IF Len(pushed) > t.max_history
                       THEN SubSeq(pushed, 1, Len(pushed) - 1)
                       ELSE pushed ]

\* TimeState::update, called delta after the previous call (or after
\* new()): Instant::now() is later than last_frame_time by delta.
TimeState_update(t, delta) ==
    LET pushed == Append(t.frame_time_history, delta)
    IN  [ t EXCEPT !.delta_time = delta,
                   !.elapsed_time = @ + delta,
                   !.frame_count = @ + 1,
                   !.frame_time_history =
                       IF Len(pushed) > t.max_history
                       THEN Tail(pushed)
                       ELSE pushed ]

\* Renderer::resize
resize(r, positive) ==
    IF positive THEN [ r EXCEPT !.is_surface_configured = TRUE ] ELSE r

\* Renderer::update_view_matrix
update_view_matrix(r, view) == [ r EXCEPT !.view = view ]

\* CameraController::view_matrix(): look_at_rh from position() to the
\* center.
view_matrix == [ look_at |-> CameraPosition ]

\* An update_camera_transform that stores a whole Transform, inserting
\* it when the entity has none.
update_camera_transform_insert(c) ==
    IF IsSome(c.camera_entity)
    THEN add_component(c.camera_entity[1], "Transform",
                       [ TransformDefault EXCEPT !.position = position(c) ]
                      ).components
    ELSE components

\* CameraController::update_camera_transform: the tables afterwards.
update_camera_transform(c) ==
    IF /\ IsSome(c.camera_entity)
       /\ IsSome(get_component_mut(c.camera_entity[1], "Transform"))
    THEN [ components EXCEPT !["Transform"] =
             { IF p[1] = c.camera_entity[1]
               THEN << p[1], [ p[2] EXCEPT !.position = position(c) ] >>
               ELSE p : p \in @ } ]
    ELSE components

\* The tables after the callback of kind s has run.
SystemComponents(s) ==
    IF s = "marker"
    THEN add_component(CameraEntity, "Velocity", "c").components
    ELSE remove_component(CameraEntity, "Velocity").components

\* ------------------------------------------------------------------ renderer: draws

\* Matrix4::identity(), as the factors of Transform::matrix.
Identity ==
    [ translation |-> << 0, 0, 0 >>,
      rotation    |-> << 0, 0, 0 >>,
      scale       |-> << 1, 1, 1 >> ]

\* Transform::matrix: translation * rotation (y, x, z) * scale, kept as
\* its factors.
matrix(t) ==
    [ translation |-> t.position,
      rotation    |-> t.rotation,
      scale       |-> t.scale ]

\* A model matrix that ignores the Transform.
model_matrix_identity(e) == Identity

\* The model matrix render pairs with the mesh of entity e.
model_matrix(e) ==
    IF IsSome(get_component(e, "Transform"))
    THEN matrix(get_component(e, "Transform")[1])
    ELSE Identity

\* The draw_indexed calls of one render pass, for each order in which
\* query::<Mesh>() may yield: the meshes are split into the line list
\* ones and the others, the others are drawn first.
render_draws ==
    { LET draw(i) == [ entity |-> s[i][1], mesh |-> s[i][2],
                       model |-> model_matrix(s[i][1]) ]
          all == [ i \in 1 .. Len(s) |-> draw(i) ]
          IsLine(d) == d.mesh.topology = "LineList"
          IsTriangle(d) == d.mesh.topology # "LineList"
      IN  SelectSeq(all, IsTriangle) \o SelectSeq(all, IsLine)
      : s \in query("Mesh") }

\* ------------------------------------------------------------------ application driver: actions
\* The event loop calls one handler at a time.  A handler is modelled as
\* the sequence of the calls it makes, one action per call, and no event
\* is delivered before the handler has returned (pc is idle).  Each call
\* appends itself to trace.

\* What the driver never touches.
outside == << builder, last, issued, alive, overflow_checks, panicked,
             apart >>

Idle == [ step |-> "idle" ]

\* App::add_startup_system
AddStartupSystem(sys) ==
    /\ app.at = "building"
    /\ Len(app.startup_systems) < MaxSystems
    /\ app' = [ app EXCEPT !.startup_systems = Append(@, sys) ]
    /\ UNCHANGED << world, input_state, time, renderer, trace, hist, outside >>

\* App::add_system
AddSystem(sys) ==
    /\ app.at = "building"
    /\ Len(app.update_systems) < MaxSystems
    /\ app' = [ app EXCEPT !.update_systems = Append(@, sys) ]
    /\ UNCHANGED << world, input_state, time, renderer, trace, hist, outside >>

\* App::run: the handler is created with systems_executed = false and
\* the event loop starts.
Run ==
    /\ app.at = "building"
    /\ app' = [ app EXCEPT !.at = "running", !.systems_executed = FALSE ]
    /\ hist' = [ hist EXCEPT !.registered = app.startup_systems ]
    /\ UNCHANGED << world, input_state, time, renderer, trace, outside >>

\* AppHandler::resumed: a new AppState replaces App.state.  Its World
\* holds the camera entity with a default Transform and Camera.
Resumed ==
    /\ app.at = "running"
    /\ app.pc = Idle
    /\ app' = [ app EXCEPT !.state = TRUE ]
    /\ next_entity_id' = CameraEntity + 1
    /\ entities' = << CameraEntity >>
    /\ components' = ("Camera" :> { << CameraEntity, CameraDefault >> })
                      @@ ("Transform" :> { << CameraEntity, TransformDefault >> })
    /\ input_state' = InputStateNew
    /\ time' = TimeStateNew
    /\ renderer' = RendererNew
    /\ trace' = << [ ph |-> "resumed" ] >>
    /\ hist' = [ hist EXCEPT !.fresh = {},
                             !.resumed = IF @ < 2 THEN @ + 1 ELSE @ ]
    /\ UNCHANGED outside

\* A window_event that goes straight to handle_event.
WindowEventNoStartup(event) ==
    /\ app.at = "running"
    /\ app.pc = Idle
    /\ event.type = "RedrawRequested" => time.frame_count < MaxFrames
    /\ trace' = << >>
    /\ app' = IF app.state
              THEN [ app EXCEPT !.pc = [ step |-> "handle", event |-> event ] ]
              ELSE app
    /\ UNCHANGED << world, input_state, time, renderer, hist, outside >>

\* AppHandler::window_event is entered: nothing happens while App.state
\* is None; otherwise the startup block comes first unless
\* systems_executed is set.
WindowEvent(event) ==
    /\ app.at = "running"
    /\ app.pc = Idle
    /\ event.type = "RedrawRequested" => time.frame_count < MaxFrames
    /\ trace' = << >>
    /\ app' = IF app.state
              THEN [ app EXCEPT !.pc =
                       [ step  |-> IF app.systems_executed
                                   THEN "handle" ELSE "startup",
                         event |-> event ] ]
              ELSE app
    /\ UNCHANGED << world, input_state, time, renderer, hist, outside >>

\* One turn of `for system in startup_systems.drain(..)`.
StartupSystem ==
    /\ app.pc.step = "startup"
    /\ app.startup_systems # << >>
    /\ components' = SystemComponents(Head(app.startup_systems))
    /\ app' = [ app EXCEPT !.startup_systems = Tail(@) ]
    /\ hist' = [ hist EXCEPT !.startup = Append(@, Head(app.startup_systems)) ]
    /\ trace' = Append(trace, [ ph |-> "startup",
                                sys |-> Head(app.startup_systems) ])
    /\ UNCHANGED << next_entity_id, entities, input_state, time, renderer,
                    outside >>

\* The drain is over: systems_executed = true, then handle_event.
StartupDone ==
    /\ app.pc.step = "startup"
    /\ app.startup_systems = << >>
    /\ app' = [ app EXCEPT !.systems_executed = TRUE, !.pc.step = "handle" ]
    /\ UNCHANGED << world, input_state, time, renderer, trace, hist, outside >>

\* handle_event, CloseRequested
HandleCloseRequested ==
    /\ app.pc.step = "handle"
    /\ app.pc.event.type = "CloseRequested"
    /\ app' = [ app EXCEPT !.at = "exited", !.pc = Idle ]
    /\ trace' = Append(trace, [ ph |-> "close" ])
    /\ UNCHANGED << world, input_state, time, renderer, hist, outside >>

\* handle_event, Resized
HandleResized ==
    /\ app.pc.step = "handle"
    /\ app.pc.event.type = "Resized"
    /\ renderer' = resize(renderer, app.pc.event.positive)
    /\ app' = [ app EXCEPT !.pc = Idle ]
    /\ trace' = Append(trace, [ ph |-> "resized" ])
    /\ UNCHANGED << world, input_state, time, hist, outside >>

\* handle_event, KeyboardInput: key_input, then exit on Escape pressed
\* (the control modifier is never set by an event of the model), then
\* request_redraw.
HandleKeyboardInput ==
    /\ app.pc.step = "handle"
    /\ app.pc.event.type = "KeyboardInput"
    /\ LET code == app.pc.event.code
           key_state == app.pc.event.state
       IN  /\ input_state' = key_input(input_state, code, key_state)
           /\ hist' = [ hist EXCEPT !.fresh =
                          IF key_state = "Pressed"
                             /\ ~ key_pressed(input_state, code)
                          THEN @ \cup { code } ELSE @ ]
           /\ app' = [ app EXCEPT
                         !.at = IF code = "Escape" /\ key_state = "Pressed"
                                THEN "exited" ELSE @,
                         !.pc = Idle ]
           /\ trace' = Append(trace, [ ph |-> "key", code |-> code,
                                       state |-> key_state ])
    /\ UNCHANGED << world, time, renderer, outside >>

\* handle_event, RedrawRequested: update(update_systems) is entered.
HandleRedrawRequested ==
    /\ app.pc.step = "handle"
    /\ app.pc.event.type = "RedrawRequested"
    /\ app' = [ app EXCEPT !.pc.step = "update" ]
    /\ UNCHANGED << world, input_state, time, renderer, trace, hist, outside >>

\* AppState::update, first call: time.update().  Every frame of the
\* driver takes one unit of time; no handler of the driver reads the
\* durations.
UpdateTime ==
    /\ app.pc.step = "update"
    /\ time' = TimeState_update(time, 1)
    /\ app' = [ app EXCEPT !.pc.step = "input" ]
    /\ trace' = Append(trace, [ ph |-> "time" ])
    /\ UNCHANGED << world, input_state, renderer, hist, outside >>

\* AppState::update, second call: input_state.update()
UpdateInput ==
    /\ app.pc.step = "input"
    /\ input_state' = InputState_update(input_state)
    /\ app' = [ app EXCEPT !.pc = [ step  |-> "systems", i |-> 1,
                                    event |-> app.pc.event ] ]
    /\ trace' = Append(trace, [ ph |-> "input" ])
    /\ UNCHANGED << world, time, renderer, hist, outside >>

\* A loop that takes the callbacks from the end of the list.
system_at_reversed(i) == app.update_systems[Len(app.update_systems) + 1 - i]

\* The callback the i-th turn of `for system in update_systems` calls.
system_at(i) == app.update_systems[i]

\* One turn of the loop over update_systems: the callback gets the
\* World, the input state and the time state.
UpdateSystem ==
    /\ app.pc.step = "systems"
    /\ app.pc.i <= Len(app.update_systems)
    /\ components' = SystemComponents(system_at(app.pc.i))
    /\ app' = [ app EXCEPT !.pc.i = @ + 1 ]
    /\ hist' = [ hist EXCEPT !.updated = TRUE ]
    /\ trace' = Append(trace,
                   [ ph    |-> "system",
                     i     |-> app.pc.i,
                     sys   |-> system_at(app.pc.i),
                     saw   |-> world,
                     left  |-> << next_entity_id, entities, components' >>,
                     input |-> input_state,
                     frame |-> time.frame_count ])
    /\ UNCHANGED << next_entity_id, entities, input_state, time, renderer,
                    outside >>

\* After the loop: camera_controller.update_camera_transform(&mut world)
UpdateCamera ==
    /\ app.pc.step = "systems"
    /\ app.pc.i > Len(app.update_systems)
    /\ components' = update_camera_transform(CameraControllerApp)
    /\ app' = [ app EXCEPT !.pc = [ step |-> "view", event |-> app.pc.event ] ]
    /\ trace' = Append(trace, [ ph |-> "camera" ])
    /\ UNCHANGED << next_entity_id, entities, input_state, time, renderer,
                    hist, outside >>

\* renderer.update_view_matrix(camera_controller.view_matrix())
UpdateView ==
    /\ app.pc.step = "view"
    /\ renderer' = update_view_matrix(renderer, view_matrix)
    /\ app' = [ app EXCEPT !.pc.step = "render" ]
    /\ trace' = Append(trace, [ ph |-> "view" ])
    /\ UNCHANGED << world, input_state, time, hist, outside >>

\* self.render(): Renderer::render returns at once while the surface is
\* not configured, fails when get_current_texture fails, and otherwise
\* submits one pass with the draws.  handle_event resizes on Lost and
\* exits on OutOfMemory.
Render(surface) ==
    /\ app.pc.step = "render"
    /\ LET outcome == IF ~ renderer.is_surface_configured THEN "skipped"
                      ELSE IF surface # "Ok" THEN surface
                      ELSE "submitted"
       IN  /\ \E draws \in IF outcome = "submitted"
                            THEN render_draws ELSE { << >> } :
                 trace' = Append(trace, [ ph      |-> "render",
                                          outcome |-> outcome,
                                          draws   |-> draws ])
           /\ app' = [ app EXCEPT
                         !.at = IF outcome = "OutOfMemory" THEN "exited" ELSE @,
                         !.pc = Idle ]
           /\ \E positive \in BOOLEAN :
                 renderer' = IF outcome = "Lost"
                             THEN resize(renderer, positive) ELSE renderer
    /\ hist' = [ hist EXCEPT !.fresh = {} ]
    /\ UNCHANGED << world, input_state, time, outside >>

NextApp ==
    \/ \E sys \in SystemKinds : AddStartupSystem(sys)
    \/ \E sys \in SystemKinds : AddSystem(sys)
    \/ Run
    \/ Resumed
    \/ \E event \in WindowEvents : WindowEvent(event)
    \/ StartupSystem
    \/ StartupDone
    \/ HandleCloseRequested
    \/ HandleResized
    \/ HandleKeyboardInput
    \/ HandleRedrawRequested
    \/ UpdateTime
    \/ UpdateInput
    \/ UpdateSystem
    \/ UpdateCamera
    \/ UpdateView
    \/ \E surface \in SurfaceResults : Render(surface)

SpecApp == Init /\ [][NextApp]_vars

\* ------------------------------------------------------------------ a render pass over any World
\* Renderer::render reads the World and changes nothing in it.  The
\* specification starts where handle_event calls self.render(), with the
\* World any startup and update callbacks may have left: tables of
\* meshes and transforms over the ids, entries of ids that are not live
\* included.

\* Mesh components: render looks at primitive_topology only.
MeshValues == { [ topology |-> "TriangleList" ], [ topology |-> "LineList" ] }

\* Transforms given to meshes.
RenderTransforms ==
    { TransformDefault,
      [ position |-> << 1, 0, 2 >>,
        rotation |-> << 0, 1, 0 >>,
        scale    |-> << 2, 2, 2 >> ] }

\* The tables with values from S and at most one entry per id.
TablesOver(S) ==
    { t \in SUBSET (EntityIds \X S) : \A p, q \in t : p[1] = q[1] => p = q }

\* The live lists: ids in ascending order, as create_entity and despawn
\* leave them.
LiveLists ==
    { s \in UNION { [ 1 .. n -> EntityIds ] : n \in 0 .. MaxEntities } :
        \A i, j \in 1 .. Len(s) : i < j => s[i] < s[j] }

InitRender ==
    /\ next_entity_id = MaxEntities
    /\ entities \in LiveLists
    /\ \E tm \in TablesOver(MeshValues), tt \in TablesOver(RenderTransforms) :
          components = ("Mesh" :> tm) @@ ("Transform" :> tt)
    /\ builder = None
    /\ last = [ op |-> "new" ]
    /\ issued = [ i \in 1 .. MaxEntities |-> i - 1 ]
    /\ alive = { entities[i] : i \in 1 .. Len(entities) }
    /\ overflow_checks = TRUE
    /\ panicked = FALSE
    /\ app = [ AppNew EXCEPT !.at = "running", !.state = TRUE,
                             !.systems_executed = TRUE,
                             !.pc = [ step  |-> "render",
                                      event |-> [ type |-> "RedrawRequested" ] ] ]
    /\ input_state = InputStateNew
    /\ time = TimeState_update(TimeStateNew, 1)
    /\ \E configured \in BOOLEAN : renderer = resize(RendererNew, configured)
    /\ trace = << >>
    /\ hist = [ HistNew EXCEPT !.resumed = 1 ]
    /\ ApartInit

SpecRender ==
    InitRender /\ [][\E surface \in SurfaceResults : Render(surface)]_vars

\* ------------------------------------------------------------------ the physics system of the example
\* examples/basic_grid.rs, physics_system, called on any World that holds
\* Transform and Velocity tables.  Positions and angles are counted in
\* halves of a unit, durations in halves of a second and velocities in
\* units per second, so that v * dt is an integer number of halves.

\* Largest dt of a tick, in half seconds.
MaxDelta == 2

DeltaSeconds == 0 .. MaxDelta

\* Transform::default() and a Transform at one unit along x.
PhysicsTransforms ==
    { TransformDefault,
      [ position |-> << 2, 0, 0 >>,
        rotation |-> << 0, 0, 0 >>,
        scale    |-> << 1, 1, 1 >> ] }

\* Velocity::linear((1, 0, 0)) and Velocity::angular((0, 1, 0)).
Velocities ==
    { [ linear |-> << 1, 0, 0 >>, angular |-> << 0, 0, 0 >> ],
      [ linear |-> << 0, 0, 0 >>, angular |-> << 0, 1, 0 >> ] }

\* Vector3 + Vector3
VAdd(a, b) == [ i \in 1 .. 3 |-> a[i] + b[i] ]

\* Vector3 * f32
VScale(a, n) == [ i \in 1 .. 3 |-> a[i] * n ]

\* The clone of the Transform with the velocity applied for dt.
moved(transform, velocity, dt) ==
    [ transform EXCEPT
        !.position = VAdd(@, VScale(velocity.linear, dt)),
        !.rotation = VAdd(@, VScale(velocity.angular, dt)) ]

\* An update list that gives a default Transform to the entities that
\* have none.
physics_updates_all(s, dt) ==
    [ i \in 1 .. Len(s) |->
        << s[i][1],
           moved(IF IsSome(get_component(s[i][1], "Transform"))
                 THEN get_component(s[i][1], "Transform")[1]
                 ELSE TransformDefault, s[i][2], dt) >> ]

\* The first loop: s is what query::<Velocity>() yields; an update is
\* pushed for the entities get_component::<Transform> is Some for.
physics_updates(s, dt) ==
    LET HasTransform(p) == IsSome(get_component(p[1], "Transform"))
        kept == SelectSeq(s, HasTransform)
    IN  [ i \in 1 .. Len(kept) |->
            << kept[i][1],
               moved(get_component(kept[i][1], "Transform")[1],
                     kept[i][2], dt) >> ]

\* World::add_component on given tables.
add_component_to(c, e, k, v) ==
    LET storage == IF k \in DOMAIN c THEN c[k] ELSE {}
    IN  (k :> HashMapInsert(storage, e, v)) @@ c

\* The second loop: add_component of each update, in order.
RECURSIVE apply_updates(_, _)
apply_updates(c, updates) ==
    IF updates = << >> THEN c
    ELSE apply_updates(
            add_component_to(c, Head(updates)[1], "Transform", Head(updates)[2]),
            Tail(updates))

\* physics_system: the tables afterwards, for each order of the query.
physics_system(dt) ==
    { apply_updates(components, physics_updates(s, dt)) :
        s \in query("Velocity") }

\* One call of physics_system in a frame whose delta_seconds() is dt.
PhysicsSystem(dt) ==
    /\ time.frame_count < MaxFrames
    /\ time' = TimeState_update(time, dt)
    /\ components' \in physics_system(dt)
    /\ last' = [ op |-> "physics_system", dt |-> dt, before |-> world ]
    /\ UNCHANGED << next_entity_id, entities, builder, issued, alive,
                    overflow_checks, panicked, app, input_state, renderer,
                    trace, hist, apart >>

InitPhysics ==
    /\ next_entity_id = MaxEntities
    /\ entities \in LiveLists
    /\ \E tt \in TablesOver(PhysicsTransforms), tv \in TablesOver(Velocities) :
          components = ("Transform" :> tt) @@ ("Velocity" :> tv)
    /\ builder = None
    /\ last = [ op |-> "new" ]
    /\ issued = [ i \in 1 .. MaxEntities |-> i - 1 ]
    /\ alive = { entities[i] : i \in 1 .. Len(entities) }
    /\ overflow_checks = TRUE
    /\ panicked = FALSE
    /\ DriverInit
    /\ ApartInit

SpecPhysics ==
    InitPhysics /\ [][\E dt \in DeltaSeconds : PhysicsSystem(dt)]_vars

\* ------------------------------------------------------------------ Timer

\* Duration is kept at a reduced width: a whole number of units up to
\* DurationMAX, which stands for Duration::MAX.
DurationBits == 3

DurationMAX == 2 ^ DurationBits - 1

\* The largest delta handed to tick, and the number of tick calls.
MaxTickDelta == 3

MaxTicks == 3

\* A tick that has no early return for a one-shot timer that finished.
tick_accumulating(t, delta) ==
    IF t.elapsed + delta > DurationMAX
    THEN [ panic |-> TRUE, ret |-> FALSE, timer |-> t ]
    ELSE IF t.elapsed + delta >= t.duration
    THEN [ panic |-> FALSE, ret |-> TRUE,
           timer |-> [ t EXCEPT
                         !.elapsed = IF t.repeating THEN 0 ELSE t.elapsed + delta,
                         !.finished = ~ t.repeating ] ]
    ELSE [ panic |-> FALSE, ret |-> FALSE,
           timer |-> [ t EXCEPT !.elapsed = t.elapsed + delta ] ]

\* Timer::tick: whether the call panics, what it returns and the timer
\* afterwards.  elapsed += delta is Duration's checked addition, which
\* panics on overflow before anything is stored.
tick(t, delta) ==
    IF t.finished /\ ~ t.repeating
    THEN [ panic |-> FALSE, ret |-> FALSE, timer |-> t ]
    ELSE IF t.elapsed + delta > DurationMAX
    THEN [ panic |-> TRUE, ret |-> FALSE, timer |-> t ]
    ELSE IF t.elapsed + delta >= t.duration
    THEN [ panic |-> FALSE, ret |-> TRUE,
           timer |-> [ t EXCEPT
                         !.elapsed = IF t.repeating THEN 0 ELSE t.elapsed + delta,
                         !.finished = ~ t.repeating ] ]
    ELSE [ panic |-> FALSE, ret |-> FALSE,
           timer |-> [ t EXCEPT !.elapsed = t.elapsed + delta ] ]

\* Timer::just_finished
just_finished(t) == t.finished

\* timer.tick(delta), logged with what it returned.
Tick(delta) ==
    /\ ~ panicked
    /\ Len(trace) < MaxTicks
    /\ LET r == tick(timer, delta)
       IN  /\ timer' = r.timer
           /\ panicked' = r.panic
           /\ trace' = Append(trace, [ ph       |-> "tick",
                                       delta    |-> delta,
                                       returned |-> ~ r.panic,
                                       ret      |-> r.ret,
                                       elapsed  |-> r.timer.elapsed ])
    /\ UNCHANGED << world, builder, last, issued, alive, overflow_checks,
                    app, input_state, time, renderer, hist,
                    camera_controller >>

\* Any timer, one-shot or repeating, of any duration.
InitTimer ==
    /\ WorldInit
    /\ overflow_checks = TRUE
    /\ panicked = FALSE
    /\ DriverInit
    /\ \E duration \in 0 .. DurationMAX :
          timer \in { Timer_once(duration), Timer_repeating(duration) }
    /\ camera_controller = CameraController_new

SpecTimer ==
    InitTimer /\ [][\E delta \in 0 .. MaxTickDelta : Tick(delta)]_vars

\* ------------------------------------------------------------------ InputState

\* The number of calls made on the InputState.
MaxInputCalls == 4

MouseButtons == {"Left", "Right"}

\* A call on the InputState: the state after it, the call and the state
\* it was made on in last, and in hist the number of calls and the most
\* recent ElementState handed in for each key and button.
InputCall(after, call, key, button) ==
    /\ hist.calls < MaxInputCalls
    /\ input_state' = after
    /\ last' = [ op |-> call, before |-> input_state ]
    /\ hist' = [ calls  |-> hist.calls + 1,
                 key    |-> key @@ hist.key,
                 button |-> button @@ hist.button ]
    /\ UNCHANGED << world, builder, issued, alive, overflow_checks, panicked,
                    app, time, renderer, trace, apart >>

InputUpdate ==
    InputCall(InputState_update(input_state), "update", << >>, << >>)

KeyInput(key_code, state) ==
    InputCall(key_input(input_state, key_code, state), "key_input",
              key_code :> state, << >>)

SetModifiers(modifiers) ==
    InputCall(set_modifiers(input_state, modifiers), "set_modifiers",
              << >>, << >>)

MouseButton(button, state) ==
    InputCall(mouse_button(input_state, button, state), "mouse_button",
              << >>, button :> state)

SetCursorPosition(x, y) ==
    InputCall(set_cursor_position(input_state, x, y), "set_cursor_position",
              << >>, << >>)

SetScrollDelta(delta) ==
    InputCall(set_scroll_delta(input_state, delta), "set_scroll_delta",
              << >>, << >>)

RequestRedraw ==
    InputCall(request_redraw(input_state), "request_redraw", << >>, << >>)

InitInput ==
    /\ WorldInit
    /\ overflow_checks = TRUE
    /\ panicked = FALSE
    /\ app = AppNew
    /\ input_state = InputStateNew
    /\ time = TimeStateNew
    /\ renderer = RendererNew
    /\ trace = << >>
    /\ hist = [ calls  |-> 0,
                key    |-> [ k \in KeyCodes |-> "never" ],
                button |-> [ b \in MouseButtons |-> "never" ] ]
    /\ ApartInit

NextInput ==
    \/ InputUpdate
    \/ \E key_code \in KeyCodes, state \in ElementStates :
          KeyInput(key_code, state)
    \/ \E modifiers \in {"empty", "CONTROL"} : SetModifiers(modifiers)
    \/ \E button \in MouseButtons, state \in ElementStates :
          MouseButton(button, state)
    \/ \E x \in {0, 3}, y \in {0, 3} : SetCursorPosition(x, y)
    \/ \E delta \in {-1, 2} : SetScrollDelta(delta)
    \/ RequestRedraw

SpecInput == InitInput /\ [][NextInput]_vars

\* ------------------------------------------------------------------ CameraController

\* The number of calls made on the CameraController.
MaxCameraCalls == 4

\* A mouse_button that starts and ends the drag on any button.
CameraController_mouse_button_any(c, button, state) ==
    IF state = "Pressed"
    THEN [ c EXCEPT !.is_dragging = TRUE, !.last_mouse_pos = c.cursor_pos ]
    ELSE [ c EXCEPT !.is_dragging = FALSE ]

\* CameraController::mouse_button
CameraController_mouse_button(c, button, state) ==
    IF button = "Left"
    THEN IF state = "Pressed"
         THEN [ c EXCEPT !.is_dragging = TRUE,
                         !.last_mouse_pos = c.cursor_pos ]
         ELSE [ c EXCEPT !.is_dragging = FALSE ]
    ELSE c

\* CameraController::mouse_motion: what it returns and the controller
\* afterwards.
mouse_motion(c, x, y) ==
    IF ~ c.is_dragging
    THEN [ ret |-> FALSE, controller |-> [ c EXCEPT !.cursor_pos = << x, y >> ] ]
    ELSE LET dx == FSub(x, c.last_mouse_pos[1])
             dy == FSub(y, c.last_mouse_pos[2])
         IN  [ ret |-> TRUE,
               controller |->
                 [ c EXCEPT !.cursor_pos = << x, y >>,
                            !.theta = FAdd(@, dx),
                            !.phi = FClamp(FSub(@, dy), PhiMin, PhiMax),
                            !.last_mouse_pos = << x, y >> ] ]

\* A mouse_wheel that does not clamp the radius.
mouse_wheel_unclamped(c, delta) ==
    [ ret |-> TRUE,
      controller |-> [ c EXCEPT !.radius = FSub(@, delta) ] ]

\* CameraController::mouse_wheel
mouse_wheel(c, delta) ==
    [ ret |-> TRUE,
      controller |->
        [ c EXCEPT !.radius = FClamp(FSub(@, delta),
                                     ZoomRangeMin, ZoomRangeMax) ] ]

\* CameraController::set_radius
set_radius(c, radius) ==
    [ c EXCEPT !.radius = FClamp(radius, ZoomRangeMin, ZoomRangeMax) ]

\* A call on the CameraController: the controller after it; in last the
\* call, the controller it was made on and whether a left-button drag
\* was in progress; in hist the number of calls, the most recent
\* ElementState of the left button and whether every argument so far
\* was a number.
CameraCall(after, call, left, numbers) ==
    /\ hist.calls < MaxCameraCalls
    /\ camera_controller' = after
    /\ last' = call @@ [ before |-> camera_controller,
                         drag   |-> hist.left = "Pressed" ]
    /\ hist' = [ calls  |-> hist.calls + 1,
                 left   |-> left,
                 finite |-> hist.finite /\ numbers ]
    /\ UNCHANGED << world, builder, issued, alive, overflow_checks, panicked,
                    app, input_state, time, renderer, trace, timer >>

CameraMouseButton(button, state) ==
    CameraCall(CameraController_mouse_button(camera_controller, button, state),
               [ op |-> "mouse_button", button |-> button, state |-> state ],
               IF button = "Left" THEN state ELSE hist.left,
               TRUE)

MouseMotion(x, y) ==
    LET r == mouse_motion(camera_controller, x, y)
    IN  CameraCall(r.controller,
                   [ op |-> "mouse_motion", x |-> x, y |-> y, ret |-> r.ret ],
                   hist.left,
                   ~ x.nan /\ ~ y.nan)

MouseWheel(delta) ==
    LET r == mouse_wheel(camera_controller, delta)
    IN  CameraCall(r.controller,
                   [ op |-> "mouse_wheel", delta |-> delta, ret |-> r.ret ],
                   hist.left,
                   ~ delta.nan)

SetRadius(radius) ==
    CameraCall(set_radius(camera_controller, radius),
               [ op |-> "set_radius", radius |-> radius ],
               hist.left,
               ~ radius.nan)

InitCamera ==
    /\ WorldInit
    /\ overflow_checks = TRUE
    /\ panicked = FALSE
    /\ app = AppNew
    /\ input_state = InputStateNew
    /\ time = TimeStateNew
    /\ renderer = RendererNew
    /\ trace = << >>
    /\ hist = [ calls |-> 0, left |-> "never", finite |-> TRUE ]
    /\ ApartInit

\* The cursor coordinates, scroll amounts and radii handed in are far
\* enough apart to cross both ends of the clamped ranges, or NaN.
NextCamera ==
    \/ \E button \in MouseButtons, state \in ElementStates :
          CameraMouseButton(button, state)
    \/ \E x \in { F(0), F(7) }, y \in { F(0), F(100), F(-250), NaN } :
          MouseMotion(x, y)
    \/ \E delta \in { F(90), F(-450), NaN } : MouseWheel(delta)
    \/ \E radius \in { F(10), F(600), NaN } : SetRadius(radius)

SpecCamera == InitCamera /\ [][NextCamera]_vars

\* camera_controller.update_camera_transform(&mut world)
UpdateCameraTransform ==
    /\ components' = update_camera_transform(camera_controller)
    /\ last' = [ op |-> "update_camera_transform", before |-> world ]
    /\ UNCHANGED << next_entity_id, entities, builder, issued, alive,
                    overflow_checks, panicked, driver, apart >>

\* Any World with or without a Transform table, and any controller:
\* without camera entity or with one, live or not, at one of two radii.
InitCameraTransform ==
    /\ next_entity_id = MaxEntities
    /\ entities \in LiveLists
    /\ \E tv \in TablesOver(Velocities) :
          \/ components = ("Velocity" :> tv)
          \/ \E tt \in TablesOver(RenderTransforms) :
                components = ("Transform" :> tt) @@ ("Velocity" :> tv)
    /\ builder = None
    /\ last = [ op |-> "new" ]
    /\ issued = [ i \in 1 .. MaxEntities |-> i - 1 ]
    /\ alive = { entities[i] : i \in 1 .. Len(entities) }
    /\ overflow_checks = TRUE
    /\ panicked = FALSE
    /\ DriverInit
    /\ timer = Timer_once(0)
    /\ \E radius \in { RadiusNew, ZoomRangeMin } :
          camera_controller \in
             { set_radius(CameraController_new, F(radius)) }
             \cup { set_camera_entity(set_radius(CameraController_new,
                                                 F(radius)), e) :
                      e \in EntityIds }

SpecCameraTransform == InitCameraTransform /\ [][UpdateCameraTransform]_vars

\* ------------------------------------------------------------------ TimeState

\* The number of update calls made on the TimeState.
MaxTimeUpdates == 5

\* time.update(), delta after the previous call; trace keeps the delta
\* of every call.
TimeUpdate(delta) ==
    /\ time.frame_count < MaxTimeUpdates
    /\ time' = TimeState_update(time, delta)
    /\ trace' = Append(trace, [ ph |-> "update", delta |-> delta ])
    /\ UNCHANGED << world, builder, last, issued, alive, overflow_checks,
                    panicked, app, input_state, renderer, hist, apart >>

SpecTime == Init /\ [][\E delta \in DeltaSeconds : TimeUpdate(delta)]_vars

\* ------------------------------------------------------------------ helpers of the properties

Range(s) == { s[i] : i \in 1 .. Len(s) }

\* The entity has an entry in the table of the kind.
Stored(e, k) == k \in DOMAIN components /\ e \in Keys(components[k])

\* The fields of a World recorded in last.before.
CounterOf(w) == w[1]

EntitiesOf(w) == w[2]

ComponentsOf(w) == w[3]

\* ------------------------------------------------------------------ C1

\* C1: last-write-wins.  Right after add_component::<k>(e, v) (called
\* directly or by the builder's with), get_component::<k>(e) is Some(v),
\* whether or not (e, k) held a value before; and no table ever holds two
\* entries for one entity.
C1_LastWriteWins ==
    /\ last.op \in {"add_component", "with"} =>
          get_component(last.e, last.k) = Some(last.v)
    /\ \A k \in DOMAIN components :
          \A p, q \in components[k] : p[1] = q[1] => p = q

\* An add_component has just overwritten a different value.
C1_Witness ==
    /\ last.op = "add_component"
    /\ IsSome(last.old)
    /\ last.old # Some(last.v)
    /\ get_component(last.e, last.k) = Some(last.v)

\* ------------------------------------------------------------------ C2

\* C2: every sequence query::<k>() can yield lists exactly the pairs
\* (e, v) with get_component::<k>(e) = Some(v), each entity once, in every
\* reachable state, those that follow a query_mut::<k>() included.
C2_QueryMatchesGet ==
    \A k \in Kinds : \A s \in query(k) :
        /\ \A i \in 1 .. Len(s) : get_component(s[i][1], k) = Some(s[i][2])
        /\ \A e \in EntityIds :
              Cardinality({ i \in 1 .. Len(s) : s[i][1] = e }) =
                 IF IsSome(get_component(e, k)) THEN 1 ELSE 0

\* A query_mut has just run over a table of two entries, one of them of
\* an entity that is not in the live list.
C2_Witness ==
    /\ last.op = "query_mut"
    /\ last.k \in DOMAIN components
    /\ Cardinality(components[last.k]) >= 2
    /\ \E e \in Keys(components[last.k]) : e \notin Range(entities)

\* ------------------------------------------------------------------ C3

\* C3: when (e, k) holds v, remove_component::<k>(e) returns Some(v) and
\* leaves get_component::<k>(e) = None and has_component::<k>(e) false;
\* and a pair (e, k) that holds no value gets one only by an
\* add_component::<k>(e, _) (direct or through the builder).
C3_RemoveRoundTrip ==
    [][ /\ \A e \in EntityIds, k \in Kinds :
              ( /\ last'.op = "remove_component"
                /\ last'.e = e
                /\ last'.k = k
                /\ IsSome(last'.old) ) =>
                 /\ last'.ret = last'.old
                 /\ get_component(e, k)' = None
                 /\ ~ has_component(e, k)'
        /\ \A e \in EntityIds, k \in Kinds :
              (~ has_component(e, k) /\ has_component(e, k)') =>
                 /\ last'.op \in {"add_component", "with"}
                 /\ last'.e = e
                 /\ last'.k = k
      ]_vars

\* A remove_component has just returned a stored value.
C3_Witness ==
    /\ last.op = "remove_component"
    /\ IsSome(last.old)
    /\ last.ret = last.old
    /\ get_component(last.e, last.k) = None

\* ------------------------------------------------------------------ C4

\* C4: the k-th id returned by create_entity or spawn is k - 1, whatever
\* was despawned, added or removed in between.
C4_KthAllocation ==
    \A i \in 1 .. Len(issued) : issued[i] = i - 1

\* An id has just been allocated after an earlier one was despawned.
C4_Witness ==
    /\ last.op \in {"create_entity", "spawn"}
    /\ Len(issued) >= 2
    /\ Len(entities) < Len(issued)
    /\ last.id = Len(issued) - 1

\* ------------------------------------------------------------------ C5

C6_DespawnRemovesComponents ==
    (last.op = "despawn" /\ last.e \in Range(EntitiesOf(last.before))) =>
       \A k \in Kinds :
          get_component(last.e, k) = None /\ ~ has_component(last.e, k)

\* ------------------------------------------------------------------ C7

\* C7: for every id (live, despawned or never allocated) and kind with no
\* stored value, the kind's table missing included, get_component and
\* get_component_mut are None and has_component is false; a
\* get_component_mut call on such a pair has returned None.
C7_AbsentReads ==
    /\ \A e \in EntityIds, k \in Kinds :
          ~ Stored(e, k) =>
             /\ get_component(e, k) = None
             /\ get_component_mut(e, k) = None
             /\ ~ has_component(e, k)
    /\ (last.op = "get_component_mut" /\ ~ Stored(last.e, last.k)) =>
          last.ret = None

\* get_component_mut has just returned None for a despawned id and a
\* kind that has no table, while a never-allocated id also exists.
C7_Witness ==
    /\ last.op = "get_component_mut"
    /\ last.ret = None
    /\ last.k \notin DOMAIN components
    /\ last.e \in Range(issued)
    /\ last.e \notin Range(entities)
    /\ \E e \in EntityIds : e >= next_entity_id /\ ~ has_component(e, last.k)

\* ------------------------------------------------------------------ C8

C9_LiveList ==
    /\ Range(entities) = alive
    /\ \A i, j \in 1 .. Len(entities) : i < j => entities[i] < entities[j]
    /\ \A i \in 1 .. Len(entities) : entities[i] < next_entity_id

\* Every id was allocated, the first one was despawned and a later one is
\* live.
C9_Witness ==
    /\ next_entity_id = MaxEntities
    /\ Len(entities) >= 1
    /\ 0 \notin Range(entities)
    /\ 0 \in Range(issued)

\* ------------------------------------------------------------------ C10

\* C10: add_component::<k>(e, v) can be called with every id, allocated
\* or not; right after it get_component::<k>(e) is Some(v), K's table
\* exists, and entities() and the id counter are what they were.
C10_AddNoExistenceCheck ==
    /\ builder = None =>
          \A e \in EntityIds, k \in Kinds : \A v \in ValuesOf(k) :
             ENABLED AddComponent(e, k, v)
    /\ last.op = "add_component" =>
          /\ get_component(last.e, last.k) = Some(last.v)
          /\ last.k \in DOMAIN components
          /\ entities = EntitiesOf(last.before)
          /\ next_entity_id = CounterOf(last.before)

\* add_component has just stored a value for a never-allocated id in a
\* table it had to create.
C10_Witness ==
    /\ last.op = "add_component"
    /\ last.e >= next_entity_id
    /\ last.e \notin Range(entities)
    /\ last.k \notin DOMAIN ComponentsOf(last.before)
    /\ get_component(last.e, last.k) = Some(last.v)

\* ------------------------------------------------------------------ C11

\* C11: create_entity never fails and never returns an id it has returned
\* before, in every state of the id counter, the one where next_entity_id
\* holds the largest value of its type included.
C11_AllocationTotalAndFresh ==
    /\ ~ panicked
    /\ \A i, j \in 1 .. Len(issued) : i # j => issued[i] # issued[j]

\* ------------------------------------------------------------------ C12

\* C12: the builder stores eagerly.  Right after with(k, v) the value is
\* in the World while the builder is still alive; id() is the id the
\* spawn() of this builder allocated and build() returns it; build() and
\* dropping the builder leave the World as it was, with every component
\* the with calls stored.
C12_BuilderEager ==
    /\ last.op = "with" =>
          /\ builder # None
          /\ get_component(last.e, last.k) = Some(last.v)
    /\ builder # None =>
          /\ issued # << >>
          /\ EntityBuilder_id = issued[Len(issued)]
    /\ last.op \in {"build", "drop"} =>
          /\ last.id = issued[Len(issued)]
          /\ world = last.before
          /\ \A k \in DOMAIN last.staged :
                get_component(last.id, k) = Some(last.staged[k])

\* A builder that stored components of both kinds was dropped without
\* build() and the entity holds them.
C12_Witness ==
    /\ last.op = "drop"
    /\ DOMAIN last.staged = Kinds
    /\ \A k \in Kinds : get_component(last.id, k) = Some(last.staged[k])
    /\ last.id \in Range(entities)

\* ------------------------------------------------------------------ C19

\* C19: get_component_mut::<k>(e) hands out a slot exactly when
\* get_component::<k>(e) is present; query_mut::<k>() visits the entities
\* query::<k>() visits, each once; a value written through either is what
\* get_component returns afterwards; and such writes add or remove no key
\* and no table.
C19_MutableAccess ==
    /\ \A e \in EntityIds, k \in Kinds :
          IsSome(get_component_mut(e, k)) <=> IsSome(get_component(e, k))
    /\ \A k \in Kinds :
          /\ { [ i \in 1 .. Len(s) |-> s[i][1] ] : s \in query_mut(k) } =
                { [ i \in 1 .. Len(s) |-> s[i][1] ] : s \in query(k) }
          /\ \A s \in query_mut(k) : \A i, j \in 1 .. Len(s) :
                s[i][1] = s[j][1] => i = j
    /\ last.op = "get_component_mut" =>
          /\ IsSome(last.ret) <=> IsSome(last.wrote)
          /\ IsSome(last.wrote) => get_component(last.e, last.k) = last.wrote
          /\ IsSome(last.ret) <=> last.e \in last.keys[last.k]
    /\ last.op = "query_mut" =>
          /\ DOMAIN last.f = last.keys[last.k]
          /\ \A e \in DOMAIN last.f :
                get_component(e, last.k) = Some(last.f[e])
    /\ last.op \in {"get_component_mut", "query_mut"} =>
          /\ DOMAIN components = last.tables
          /\ \A j \in Kinds : SlotsOf(j) = last.keys[j]

\* A query_mut has just written two different values into a table of two
\* entries, one of them of an entity that is not live.
C19_Witness ==
    /\ last.op = "query_mut"
    /\ Cardinality(DOMAIN last.f) >= 2
    /\ \E a, b \in DOMAIN last.f : last.f[a] # last.f[b]
    /\ \E e \in DOMAIN last.f : e \notin Range(entities)
    /\ \A e \in DOMAIN last.f : get_component(e, last.k) = Some(last.f[e])

\* ------------------------------------------------------------------ C20

\* C20: spawn() directly followed by build(), with no with in between,
\* yields a new id that is in entities() and has no component: for every
\* kind get_component on it is None and no query yields it.
C20_SpawnBuildEmpty ==
    (last.op = "build" /\ IsSome(last.prior)) =>
       /\ last.id \in Range(entities)
       /\ \A i \in 1 .. (Len(issued) - 1) : issued[i] # last.id
       /\ \A k \in Kinds :
             /\ get_component(last.id, k) = None
             /\ \A s \in query(k) : \A i \in 1 .. Len(s) : s[i][1] # last.id

\* C20 (amended): spawn() directly followed by build() yields a new id
\* that is in entities() and adds no component: for every kind,
\* get_component on the id is what the World held under that number
\* before spawn() -- None unless add_component was called with the id
\* while it was unallocated -- and the queries yield it accordingly.
C20_SpawnBuildAddsNothing ==
    (last.op = "build" /\ IsSome(last.prior)) =>
       /\ last.id \in Range(entities)
       /\ \A i \in 1 .. (Len(issued) - 1) : issued[i] # last.id
       /\ \A k \in Kinds :
             /\ get_component(last.id, k) = last.prior[1][k]
             /\ \A s \in query(k) :
                   (\E i \in 1 .. Len(s) : s[i][1] = last.id) <=>
                      IsSome(last.prior[1][k])

\* build() has just followed spawn() directly, the new entity is live and
\* holds nothing, and another entity holds a component.
C20_Witness ==
    /\ last.op = "build"
    /\ IsSome(last.prior)
    /\ last.id \in Range(entities)
    /\ \A k \in Kinds : get_component(last.id, k) = None
    /\ \E e \in EntityIds, k \in Kinds :
          e # last.id /\ IsSome(get_component(e, k))

\* ------------------------------------------------------------------ C13

\* The calls of update callbacks in a trace, in the order they were made.
SystemCalls(tr) ==
    LET IsSystem(x) == x.ph = "system" IN SelectSeq(tr, IsSystem)

\* The trace has a call of the given phase.
Called(tr, ph) == \E i \in 1 .. Len(tr) : tr[i].ph = ph

\* C13: within one frame the update callbacks run one at a time in
\* registration order, each exactly once, and each is handed the World
\* exactly as the previous one left it.
C13_UpdateOrder ==
    LET calls == SystemCalls(trace)
    IN  /\ Len(calls) <= Len(app.update_systems)
        /\ \A j \in 1 .. Len(calls) :
              /\ calls[j].i = j
              /\ calls[j].sys = app.update_systems[j]
              /\ calls[j].frame = time.frame_count
        /\ \A j \in 1 .. (Len(calls) - 1) : calls[j + 1].saw = calls[j].left
        /\ (app.pc.step = "systems" /\ calls # << >>) =>
              calls[Len(calls)].left = world
        /\ Called(trace, "camera") => Len(calls) = Len(app.update_systems)

\* A frame has run two different callbacks, the first changed the World
\* and the second was handed what the first left.
C13_Witness ==
    LET calls == SystemCalls(trace)
    IN  /\ Called(trace, "render")
        /\ Len(calls) = 2
        /\ calls[1].sys # calls[2].sys
        /\ calls[1].left # calls[1].saw
        /\ calls[2].saw = calls[1].left

\* ------------------------------------------------------------------ C14

\* The place of a call in the claimed order of a frame; 0 for the calls
\* that are no phase of a frame.
PhaseRank(ph) ==
    CASE ph = "input"  -> 1
      [] ph = "time"   -> 2
      [] ph = "system" -> 3
      [] ph = "camera" -> 4
      [] ph = "view"   -> 4
      [] ph = "render" -> 5
      [] OTHER         -> 0

\* C14: each frame runs its phases in the order input polling, time
\* update, update callbacks, camera reconciliation (camera transform and
\* view matrix), render submission; no phase starts before the previous
\* one is over.
C14_PhaseOrder ==
    \A i, j \in 1 .. Len(trace) :
        (i < j /\ PhaseRank(trace[i].ph) > 0 /\ PhaseRank(trace[j].ph) > 0) =>
           PhaseRank(trace[i].ph) <= PhaseRank(trace[j].ph)

\* ------------------------------------------------------------------ C15

\* C15: a key that went from not pressed to pressed since the previous
\* frame is reported by key_just_pressed to the update callbacks of the
\* next frame, and no other key is.
C15_JustPressedNextFrame ==
    \A i \in 1 .. Len(trace) :
        trace[i].ph = "system" =>
           \A k \in KeyCodes :
              key_just_pressed(trace[i].input, k) <=> k \in hist.fresh

\* ------------------------------------------------------------------ C16

\* C16: the startup callbacks run in registration order, each once, and
\* all of them have returned before handle_event is entered and so
\* before any update callback runs, whatever events arrive and in
\* whatever order.
C16_StartupOnceBeforeUpdates ==
    /\ Len(hist.startup) <= Len(hist.registered)
    /\ \A i \in 1 .. Len(hist.startup) : hist.startup[i] = hist.registered[i]
    /\ app.at # "building" =>
          hist.startup \o app.startup_systems = hist.registered
    /\ hist.updated => hist.startup = hist.registered
    /\ app.pc.step \notin {"idle", "startup"} =>
          /\ app.systems_executed
          /\ hist.startup = hist.registered
    /\ app.systems_executed => hist.startup = hist.registered

\* Two different startup callbacks have run in their order, update
\* callbacks have run since, and resumed was delivered twice.
C16_Witness ==
    /\ Len(hist.registered) = 2
    /\ hist.registered[1] # hist.registered[2]
    /\ hist.startup = hist.registered
    /\ hist.updated
    /\ hist.resumed = 2

\* ------------------------------------------------------------------ C17

\* The entries of the Mesh table.
MeshTable == IF "Mesh" \in DOMAIN components THEN components["Mesh"] ELSE {}

HeldIn(c, e, k) == IF k \in DOMAIN c THEN HashMapGet(c[k], e) ELSE None

\* C18: one physics tick with time step dt replaces, for every entity
\* that has a Velocity and a Transform, position by position + linear * dt
\* and rotation by rotation + angular * dt and keeps the scale; the
\* Transform of an entity without Velocity is unchanged, an entity
\* without Transform gets none, and the Velocity table, the live list
\* and the id counter are unchanged.
C18_PhysicsTick ==
    last.op = "physics_system" =>
       LET was == ComponentsOf(last.before)
       IN  /\ \A e \in EntityIds :
                 LET t == HeldIn(was, e, "Transform")
                     v == HeldIn(was, e, "Velocity")
                 IN  get_component(e, "Transform") =
                        IF IsSome(t) /\ IsSome(v)
                        THEN Some([ position |->
                                      VAdd(t[1].position,
                                           VScale(v[1].linear, last.dt)),
                                    rotation |->
                                      VAdd(t[1].rotation,
                                           VScale(v[1].angular, last.dt)),
                                    scale |-> t[1].scale ])
                        ELSE t
           /\ \A e \in EntityIds :
                 get_component(e, "Velocity") = HeldIn(was, e, "Velocity")
           /\ DOMAIN components = DOMAIN was
           /\ entities = EntitiesOf(last.before)
           /\ next_entity_id = CounterOf(last.before)

\* A tick of half a second has moved a Transform at the origin with
\* linear velocity (1, 0, 0) to (0.5, 0, 0), while an entity with a
\* Velocity and no Transform still has no Transform.
C18_Witness ==
    /\ last.op = "physics_system"
    /\ last.dt = 1
    /\ \E e \in EntityIds :
          /\ HeldIn(ComponentsOf(last.before), e, "Transform")
                = Some(TransformDefault)
          /\ HeldIn(ComponentsOf(last.before), e, "Velocity")
                = Some([ linear |-> << 1, 0, 0 >>, angular |-> << 0, 0, 0 >> ])
          /\ get_component(e, "Transform") =
                Some([ TransformDefault EXCEPT !.position = << 1, 0, 0 >> ])
    /\ \E e \in EntityIds :
          /\ IsSome(get_component(e, "Velocity"))
          /\ HeldIn(ComponentsOf(last.before), e, "Transform") = None
          /\ get_component(e, "Transform") = None

\* ------------------------------------------------------------------ C21

\* C21: query and query_mut on a kind whose table was never created give
\* the empty sequence, and a query_mut call on such a kind has yielded
\* nothing, created no table and left the live list, the id counter and
\* every table as they were.
C21_QueryMissingTable ==
    /\ \A k \in Kinds :
          k \notin DOMAIN components =>
             query(k) = { << >> } /\ query_mut(k) = { << >> }
    /\ (last.op = "query_mut" /\ IsSome(last.missing)) =>
          /\ last.missing[1].ret = { << >> }
          /\ last.k \notin DOMAIN components
          /\ world = last.missing[1].before

\* query_mut has just run on a kind without a table while the other kind
\* has a table with an entry and an entity is live.
C21_Witness ==
    /\ last.op = "query_mut"
    /\ IsSome(last.missing)
    /\ last.k \notin DOMAIN components
    /\ \E j \in DOMAIN components : components[j] # {}
    /\ Len(entities) >= 1

\* ------------------------------------------------------------------ C22

\* C22: in every state, for every id and kind, has_component is true
\* exactly when get_component returns a value.
C22_HasIffGet ==
    \A e \in EntityIds, k \in Kinds :
        has_component(e, k) <=> (get_component(e, k) # None)

\* has_component is true for a despawned entity whose component is still
\* stored and false for a live entity that has none of that kind.
C22_Witness ==
    \E e \in EntityIds, d \in EntityIds, k \in Kinds :
        /\ e \notin Range(entities)
        /\ has_component(e, k)
        /\ d \in Range(entities)
        /\ ~ has_component(d, k)

\* ------------------------------------------------------------------ C23

\* C23: remove_component(e, k) called when no value of kind k is stored
\* for e, the table missing or the entry missing, has returned None and
\* left the tables, the live list and the id counter as they were.
C23_RemoveAbsent ==
    (last.op = "remove_component" /\ last.old = None) =>
       /\ last.ret = None
       /\ components = ComponentsOf(last.before)
       /\ DOMAIN components = DOMAIN ComponentsOf(last.before)
       /\ entities = EntitiesOf(last.before)
       /\ next_entity_id = CounterOf(last.before)

\* remove_component has just run on a kind that has no table, for a live
\* entity that holds a component of the other kind.
C23_Witness ==
    /\ last.op = "remove_component"
    /\ last.old = None
    /\ last.k \notin DOMAIN components
    /\ last.e \in Range(entities)
    /\ \E j \in Kinds : IsSome(get_component(last.e, j))

\* ------------------------------------------------------------------ C24

\* The ids that were allocated and have since been despawned.
Despawned == Range(issued) \ alive

\* C24: once an entity has been despawned, no query or query_mut of any
\* kind yields a pair for it and no render pass draws a Mesh stored for
\* it.
C24_DespawnedInaccessible ==
    \A e \in Despawned :
        /\ \A k \in DOMAIN components :
              \A s \in query(k) \cup query_mut(k) :
                 \A i \in 1 .. Len(s) : s[i][1] # e
        /\ \A draws \in render_draws :
              \A j \in 1 .. Len(draws) : draws[j].entity # e

\* ------------------------------------------------------------------ C25

\* The deltas handed to the first i tick calls, added up.
RECURSIVE Accumulated(_)
Accumulated(i) == IF i = 0 THEN 0 ELSE Accumulated(i - 1) + trace[i].delta

\* Call i is the first after which the accumulated deltas reach the
\* duration.
FirstReaching(i) ==
    /\ Accumulated(i) >= timer.duration
    /\ \A j \in 1 .. i - 1 : Accumulated(j) < timer.duration

\* C25 as stated: for a one-shot timer every tick call returns, it
\* returns true exactly on the first call after which the accumulated
\* deltas reach the duration, and elapsed is the same after every later
\* call.
C25_OneShotFiresOnce ==
    ~ timer.repeating =>
       \A i \in 1 .. Len(trace) :
          /\ trace[i].returned
          /\ trace[i].ret <=> FirstReaching(i)
          /\ \A j \in 1 .. i - 1 :
                trace[j].ret => trace[i].elapsed = trace[j].elapsed

\* C25, amended: for a one-shot timer every tick call that returns (the
\* sum elapsed + delta fits a Duration) returns true exactly on the
\* first call after which the accumulated deltas reach the duration, and
\* elapsed is the same after every call later than that one.
C25_OneShotFiresOnceInRange ==
    ~ timer.repeating =>
       \A i \in 1 .. Len(trace) :
          trace[i].returned =>
             /\ trace[i].ret <=> FirstReaching(i)
             /\ \A j \in 1 .. i - 1 :
                   trace[j].ret => trace[i].elapsed = trace[j].elapsed

\* A one-shot timer has been ticked three times: below the duration
\* (false), past it (true), and once more with a positive delta (false,
\* elapsed unchanged).
C25_Witness ==
    /\ ~ timer.repeating
    /\ Len(trace) = 3
    /\ ~ trace[1].ret /\ trace[1].delta > 0
    /\ trace[2].ret
    /\ ~ trace[3].ret /\ trace[3].returned /\ trace[3].delta > 0
    /\ trace[3].elapsed = trace[2].elapsed

\* ------------------------------------------------------------------ C26

\* C26: after any tick call, of a one-shot or of a repeating timer,
\* just_finished() is true exactly when that call returned true.
C26_JustFinishedIsLastTick ==
    (trace # << >> /\ trace[Len(trace)].returned) =>
       (just_finished(timer) <=> trace[Len(trace)].ret)

\* ------------------------------------------------------------------ C27

\* C27: key_pressed(k) and mouse_button_pressed(b) are true exactly when
\* the most recent event for the key or button was Pressed, and a call
\* of update has emptied the just-pressed and just-released sets, zeroed
\* the cursor delta and the scroll delta, cleared needs_redraw and left
\* the held keys, the held buttons, the modifiers and the cursor position
\* as they were.
C27_HeldStateAndUpdate ==
    /\ \A k \in KeyCodes :
          key_pressed(input_state, k) <=> hist.key[k] = "Pressed"
    /\ \A b \in MouseButtons :
          mouse_button_pressed(input_state, b) <=> hist.button[b] = "Pressed"
    /\ last.op = "update" =>
          /\ input_state.just_pressed_keys = {}
          /\ input_state.just_released_keys = {}
          /\ input_state.just_pressed_buttons = {}
          /\ input_state.just_released_buttons = {}
          /\ input_state.cursor_delta = << 0, 0 >>
          /\ input_state.scroll_delta = 0
          /\ ~ input_state.needs_redraw
          /\ input_state.pressed_keys = last.before.pressed_keys
          /\ input_state.pressed_buttons = last.before.pressed_buttons
          /\ input_state.modifiers = last.before.modifiers
          /\ input_state.cursor_position = last.before.cursor_position

\* update has just run on a state with a held key, a held button, the
\* cursor moved away from the origin and a scroll amount pending.
C27_Witness ==
    /\ last.op = "update"
    /\ last.before.pressed_keys # {}
    /\ last.before.just_pressed_keys # {}
    /\ last.before.pressed_buttons # {}
    /\ last.before.cursor_delta # << 0, 0 >>
    /\ input_state.pressed_keys # {}
    /\ input_state.pressed_buttons # {}
    /\ input_state.cursor_position # << 0, 0 >>

\* ------------------------------------------------------------------ C28

\* C28: a drag is in progress exactly between a Left Pressed and the
\* next Left Released; a mouse_motion call that changed theta or phi
\* returned true and was made during a drag; a mouse_motion call outside
\* a drag returned false, left theta, phi and radius as they were and
\* recorded the cursor position; no other call changes theta or phi,
\* and a press or release of another button changes nothing.
C28_DragOnly ==
    /\ camera_controller.is_dragging <=> hist.left = "Pressed"
    /\ last.op = "mouse_motion" =>
          LET b == last.before
              c == camera_controller
              changed == c.theta # b.theta \/ c.phi # b.phi
          IN  /\ changed => last.ret /\ last.drag
              /\ ~ last.drag =>
                    /\ ~ last.ret
                    /\ c.theta = b.theta
                    /\ c.phi = b.phi
                    /\ c.radius = b.radius
                    /\ c.cursor_pos = << last.x, last.y >>
    /\ last.op \in {"mouse_button", "mouse_wheel", "set_radius"} =>
          /\ camera_controller.theta = last.before.theta
          /\ camera_controller.phi = last.before.phi
    /\ (last.op = "mouse_button" /\ last.button # "Left") =>
          camera_controller = last.before

\* A mouse_motion call during a left-button drag has just changed theta
\* and phi and returned true.
C28_Witness ==
    /\ last.op = "mouse_motion"
    /\ last.drag
    /\ last.ret
    /\ camera_controller.theta # last.before.theta
    /\ camera_controller.phi # last.before.phi

\* ------------------------------------------------------------------ C29

\* C29 as stated: after any sequence of mouse_button, mouse_motion,
\* mouse_wheel and set_radius calls on a controller of new(), radius is
\* within [2.0, 50.0] and phi within [0.1, pi - 0.1].
C29_RadiusPhiClamped ==
    /\ ~ camera_controller.radius.nan
    /\ camera_controller.radius.val \in ZoomRangeMin .. ZoomRangeMax
    /\ ~ camera_controller.phi.nan
    /\ camera_controller.phi.val \in PhiMin .. PhiMax

\* C29, amended: after any sequence of such calls whose arguments are
\* all numbers (none is NaN), radius is within [2.0, 50.0] and phi
\* within [0.1, pi - 0.1].
C29_RadiusPhiClampedFinite ==
    hist.finite =>
       /\ ~ camera_controller.radius.nan
       /\ camera_controller.radius.val \in ZoomRangeMin .. ZoomRangeMax
       /\ ~ camera_controller.phi.nan
       /\ camera_controller.phi.val \in PhiMin .. PhiMax

\* Calls with numbers only have driven radius to the lower end of its
\* range and phi to the upper end of its range.
C29_Witness ==
    /\ hist.finite
    /\ hist.calls >= 3
    /\ camera_controller.radius = F(ZoomRangeMin)
    /\ camera_controller.phi = F(PhiMax)

\* ------------------------------------------------------------------ C30

\* C30: an update_camera_transform call has left the live list, the id
\* counter and the set of tables as they were; it has changed no entry
\* except, at most, the position of the Transform of the controller's
\* camera entity, whose rotation and scale are as before; with no camera
\* entity, or no Transform stored for it, the tables are as before.
C30_OnlyCameraPosition ==
    last.op = "update_camera_transform" =>
       LET was == ComponentsOf(last.before)
           cam == camera_controller.camera_entity
       IN  /\ entities = EntitiesOf(last.before)
           /\ next_entity_id = CounterOf(last.before)
           /\ DOMAIN components = DOMAIN was
           /\ \A k \in DOMAIN components, e \in EntityIds :
                 IF /\ k = "Transform"
                    /\ cam = Some(e)
                    /\ IsSome(HeldIn(was, e, k))
                 THEN /\ IsSome(get_component(e, k))
                      /\ get_component(e, k)[1].rotation
                            = HeldIn(was, e, k)[1].rotation
                      /\ get_component(e, k)[1].scale
                            = HeldIn(was, e, k)[1].scale
                      /\ Cardinality(components[k]) = Cardinality(was[k])
                 ELSE get_component(e, k) = HeldIn(was, e, k)
           /\ (cam = None \/ HeldIn(was, cam[1], "Transform") = None) =>
                 components = was

\* The call has moved the Transform of the camera entity, which has a
\* rotation and a scale other than the default ones, while another
\* entity has a Transform too.
C30_Witness ==
    /\ last.op = "update_camera_transform"
    /\ \E e \in EntityIds, d \in EntityIds :
          /\ camera_controller.camera_entity = Some(e)
          /\ d # e
          /\ IsSome(get_component(d, "Transform"))
          /\ IsSome(get_component(e, "Transform"))
          /\ get_component(e, "Transform")[1].position
                # HeldIn(ComponentsOf(last.before), e, "Transform")[1].position
          /\ get_component(e, "Transform")[1].scale # TransformDefault.scale

\* ------------------------------------------------------------------ C31

\* C31: after n update calls frame_time_history holds min(n,
\* max_history) entries, never more than max_history, and they are the
\* deltas of the most recent calls in the order of the calls.
C31_RecentFrameTimes ==
    LET n == Len(trace)
        h == time.frame_time_history
    IN  /\ Len(h) <= time.max_history
        /\ Len(h) = IF n < time.max_history THEN n ELSE time.max_history
        /\ \A i \in 1 .. Len(h) : h[i] = trace[n - Len(h) + i].delta

\* More calls than max_history + 1 have been made, and the two deltas
\* dropped differ from each other and from the oldest one kept.
C31_Witness ==
    /\ Len(trace) = time.max_history + 2
    /\ trace[1].delta # trace[2].delta
    /\ trace[2].delta # time.frame_time_history[1]
    /\ time.frame_time_history[1]
          # time.frame_time_history[time.max_history]

\* ------------------------------------------------------------------ C32

\* World::query on recorded tables c.
QueryIn(c, k) == IF k \in DOMAIN c THEN Enumerations(c[k]) ELSE { << >> }

\* C32: an add_component or remove_component call of kind k, and a write
\* through get_component_mut or query_mut of kind k, has left
\* get_component(e) and query() of every other kind, the live list and
\* the id counter as they were before the call.
C32_KindIsolation ==
    /\ last.op \in {"add_component", "remove_component"} =>
          /\ \A j \in Kinds \ { last.k } :
                /\ query(j) = QueryIn(ComponentsOf(last.before), j)
                /\ \A e \in EntityIds :
                      get_component(e, j)
                         = HeldIn(ComponentsOf(last.before), e, j)
          /\ entities = EntitiesOf(last.before)
          /\ next_entity_id = CounterOf(last.before)
    /\ last.op \in {"get_component_mut", "query_mut"} =>
          /\ \A j \in Kinds \ { last.k } :
                /\ query(j) = QueryIn(last.others, j)
                /\ \A e \in EntityIds :
                      get_component(e, j) = HeldIn(last.others, e, j)
          /\ entities = last.live
          /\ next_entity_id = last.counter

\* add_component has just replaced a value of an entity that holds a
\* component of another kind too.
C32_Witness ==
    /\ last.op = "add_component"
    /\ IsSome(last.old)
    /\ last.old # Some(last.v)
    /\ \E j \in Kinds \ { last.k } : IsSome(get_component(last.e, j))

\* ------------------------------------------------------------------ C33

\* C33: the AppState, and with it the World, is created at most once in
\* a run, and never after the startup systems have populated the World:
\* the World they ran on is the one later systems and renders get.
C33_OneAppState ==
    /\ hist.resumed <= 1
    /\ (app.systems_executed /\ trace # << >>) =>
          trace[Len(trace)].ph # "resumed"

====
